---- MODULE Spec2Model ----
(***************************************************************************)
(* Model of python/bridge.py: the serial-to-ThingSpeak vote bridge.        *)
(* Text is modelled as sequences of one-character strings so that strip,   *)
(* split and int() are computed the way Python computes them.              *)
(***************************************************************************)
EXTENDS Integers, Sequences, FiniteSets, TLC

\* ------------------------------------------------------------------------
\* Program constants
\* ------------------------------------------------------------------------
UPLOAD_INTERVAL == 15

\* CANDIDATES: id -> display name (a tuple is a function on 1..4)
CANDIDATES == <<"Japan", "Germany", "Switzerland", "Norway">>

\* ------------------------------------------------------------------------
\* Bounds of the model
\* ------------------------------------------------------------------------
\* seconds between two readings of the clock that the model tells apart
Quantum == 5
\* accepted votes explored in one run
MaxVotes == 2
\* failed file operations explored in one run
MaxFaults == 1

\* ------------------------------------------------------------------------
\* Text helpers (str.strip, str.split, str.startswith, int)
\* ------------------------------------------------------------------------
Whitespace == {" ", "\t", "\r", "\n"}
DigitChars == <<"0", "1", "2", "3", "4", "5", "6", "7", "8", "9">>
Digits == {DigitChars[i] : i \in 1..10}
DigitVal(ch) == (CHOOSE i \in 1..10 : DigitChars[i] = ch) - 1

RECURSIVE LStrip(_)
LStrip(s) == IF s # <<>> /\ Head(s) \in Whitespace THEN LStrip(Tail(s)) ELSE s

RECURSIVE RStrip(_)
RStrip(s) ==
    IF s # <<>> /\ s[Len(s)] \in Whitespace
    THEN RStrip(SubSeq(s, 1, Len(s) - 1))
    ELSE s

\* str.strip()
Strip(s) == RStrip(LStrip(s))

\* str.split(sep): always at least one part, empty parts are kept
RECURSIVE SplitAcc(_, _, _)
SplitAcc(s, sep, cur) ==
    IF s = <<>> THEN <<cur>>
    ELSE IF Head(s) = sep THEN <<cur>> \o SplitAcc(Tail(s), sep, <<>>)
    ELSE SplitAcc(Tail(s), sep, Append(cur, Head(s)))

Split(s, sep) == SplitAcc(s, sep, <<>>)

\* str.startswith(prefix)
StartsWith(s, prefix) ==
    /\ Len(s) >= Len(prefix)
    /\ SubSeq(s, 1, Len(prefix)) = prefix

RECURSIVE DecimalValue(_)
DecimalValue(ds) ==
    IF ds = <<>> THEN 0
    ELSE 10 * DecimalValue(SubSeq(ds, 1, Len(ds) - 1)) + DigitVal(ds[Len(ds)])

RECURSIVE Flatten(_)
Flatten(parts) == IF parts = <<>> THEN <<>> ELSE Head(parts) \o Flatten(Tail(parts))

\* int(text): surrounding whitespace is ignored, one optional sign, then
\* digit groups joined by single underscores.  ok = FALSE stands for
\* ValueError.
PyInt(text) ==
    LET t == Strip(text)
        signed == t # <<>> /\ Head(t) \in {"+", "-"}
        body == IF signed THEN Tail(t) ELSE t
        groups == Split(body, "_")
        wellFormed ==
            \A i \in 1..Len(groups) :
                /\ groups[i] # <<>>
                /\ \A j \in 1..Len(groups[i]) : groups[i][j] \in Digits
        magnitude == DecimalValue(Flatten(groups))
    IN  IF wellFormed
        THEN [ok |-> TRUE,
              val |-> IF signed /\ Head(t) = "-" THEN 0 - magnitude ELSE magnitude]
        ELSE [ok |-> FALSE, val |-> 0]


\* ------------------------------------------------------------------------
\* Candidate ids, JSON keys and the two local files
\* ------------------------------------------------------------------------
\* the keys of the initial votes dict (line 68) and of CANDIDATES
KnownIds == DOMAIN CANDIDATES

\* str(n) / int(text) on the object keys the model's files use.  A key that
\* is no integer literal makes int() raise ValueError.
KeyTexts == <<"1", "2", "3", "4", "5">>
KeyText(n) == KeyTexts[n]
KeyInt(k) ==
    IF \E i \in DOMAIN KeyTexts : KeyTexts[i] = k
    THEN [ok |-> TRUE, val |-> CHOOSE i \in DOMAIN KeyTexts : KeyTexts[i] = k]
    ELSE [ok |-> FALSE, val |-> 0]

\* votes.json: st = "absent" (no file), "corrupt" (not a JSON object: empty,
\* truncated, a list ...) or "ok": a JSON object, data its key -> number
\* map and text the keys whose value is not a number.
NoFile == [st |-> "absent", data |-> <<>>, text |-> {}]
CorruptFile == [st |-> "corrupt", data |-> <<>>, text |-> {}]
JsonFile(d) == [st |-> "ok", data |-> d, text |-> {}]

ZeroVotes == [c \in KnownIds |-> 0]

\* json.dump(votes, f): integer keys become strings
Dump(v) == JsonFile([k \in {KeyText(c) : c \in DOMAIN v} |-> v[KeyInt(k).val]])

InitialFiles ==
    { NoFile,
      CorruptFile,
      Dump(<<3, 5, 0, 1>>),
      Dump(<<0, 1, 0, 0, 0>>),
      Dump(<<1, 0, 0>>),
      [st |-> "ok", data |-> [k \in {"1", "2", "3", "4"} |-> 0], text |-> {"2"}],
      JsonFile([k \in {"1", "x"} |-> 1]) }

\* votes.csv: exists, and its rows in order
HeaderRow == <<"timestamp", "candidate_id", "candidate_name">>
NoLog == [exists |-> FALSE, rows |-> <<>>]
InitialLogs == {NoLog, [exists |-> TRUE, rows |-> <<HeaderRow>>]}

\* The remote channel's last entry: <<>> while the channel is empty, else
\* the four field values.
EmptyChannel == <<>>
InitialRemotes == {EmptyChannel, <<7, 0, 2, 1>>}

\* ------------------------------------------------------------------------
\* Lines the device stream can deliver (raw, before strip)
\* ------------------------------------------------------------------------
VOTE == <<"V", "O", "T", "E">>
READY == <<"R", "E", "A", "D", "Y">>
Lines ==
    { VOTE \o <<",", "1">>,
      VOTE \o <<",", "2", "\r">>,
      <<" ">> \o VOTE \o <<",", "3", " ">>,
      VOTE \o <<",", " ", "4">>,
      VOTE \o <<",", "0", "5">>,
      VOTE \o <<",", "9">>,
      VOTE \o <<",", "-", "1">>,
      VOTE \o <<",", "a", "b", "c">>,
      VOTE \o <<",", "1", ",", "2">>,
      VOTE \o <<",">>,
      VOTE \o <<" ", ",", "1">>,
      <<"V", "O", "T", "X", ",", "1">>,
      VOTE,
      READY,
      <<>>,
      <<"\r">> }

\* no line was read in this iteration
NoLine == <<"<none>">>
NoResult == [parsed |-> FALSE, candidate_id |-> 0, returned |-> FALSE]

\* Time.  The program reads the clock in two places: line 304 computes
\* time.time() - last_upload_time and compares it with UPLOAD_INTERVAL, and
\* lines 258 and 359 store time.time() in last_upload_time.  The model keeps
\* that difference, `elapsed`, in steps of Quantum; the value Long stands
\* for "Long seconds or more".
Long == UPLOAD_INTERVAL
Later(t) == IF t + Quantum >= Long THEN Long ELSE t + Quantum

\* the latest POST: how long ago (as elapsed is counted) and how it ended
NoAttempt == [ago |-> 0 - 1, ok |-> FALSE]

\* neither log_vote nor save_votes was called in this iteration
NoWrite == [log |-> "none", save |-> "none"]

\* ------------------------------------------------------------------------
\* State
\* ------------------------------------------------------------------------
VARIABLES
    pc,                       \* where main() is
    votes,                    \* the tally dict
    votes_since_last_upload,  \* pending upload count
    elapsed,                  \* time.time() - last_upload_time
    votesFile,                \* votes.json
    logFile,                  \* votes.csv
    remote,                   \* the channel's last entry
    serOpen,                  \* the serial port is open
    exitCode,                 \* -1 while running
    line,                     \* main's line, this iteration
    pv,                       \* process_vote's candidate_id and return value
    accepted,                 \* history: votes accepted per candidate id
    synced,                   \* history: tally at the last successful push / at start
    pushed,                   \* history: some push has succeeded
    posted,                   \* history: what the latest check or shutdown sent
    faults,                   \* history: file operations that failed
    lastAttempt,              \* history: age and outcome of the latest POST
    wrote,                    \* history: how log_vote and save_votes ended, this iteration
    order,                    \* history: the accepted votes' candidate ids, in order
    durable,                  \* history: the tally save_votes last wrote in full
    restarts                  \* history: how often the process was started again

vars ==
    <<pc, votes, votes_since_last_upload, elapsed, votesFile,
      logFile, remote, serOpen, exitCode, line, pv, accepted, synced,
      pushed, posted, faults, lastAttempt, wrote,
      order, durable, restarts>>

Init ==
    /\ pc = "start"
    /\ votes = ZeroVotes
    /\ votes_since_last_upload = 0
    /\ elapsed = Long
    /\ votesFile \in InitialFiles
    /\ logFile \in InitialLogs
    /\ remote \in InitialRemotes
    /\ serOpen = FALSE
    /\ exitCode = 0 - 1
    /\ line = NoLine
    /\ pv = NoResult
    /\ accepted = [c \in DOMAIN KeyTexts |-> 0]
    /\ synced = ZeroVotes
    /\ pushed = FALSE
    /\ posted = "nothing"
    /\ faults = 0
    /\ lastAttempt = NoAttempt
    /\ wrote = NoWrite
    /\ order = <<>>
    /\ durable = <<>>
    /\ restarts = 0

\* ------------------------------------------------------------------------
\* Startup: main() lines 353-380
\* ------------------------------------------------------------------------
\* json.load and the dict comprehension of load_votes_from_file go through
\* without an exception
FileLoads(file) ==
    /\ file.st = "ok"
    /\ \A k \in DOMAIN file.data : KeyInt(k).ok

\* {int(k): v for k, v in saved.items()}
LoadedDict(file) ==
    [c \in {KeyInt(k).val : k \in DOMAIN file.data} |-> file.data[KeyText(c)]]

\* faulty variant of load_votes_from_file: the file is never read
load_votes_skipped(v, file) == v

\* load_votes_from_file: the dict is replaced as a whole, or left alone when
\* the file is missing or anything raises
load_votes_from_file(v, file) ==
    IF FileLoads(file) THEN LoadedDict(file) ELSE v

\* print_status at startup reads votes[cid] of every candidate and sums the
\* values: a missing key (KeyError) or a value that is no number (TypeError)
\* is not caught and ends the process
StatusPrints(file) ==
    FileLoads(file) =>
        /\ KnownIds \subseteq DOMAIN LoadedDict(file)
        /\ file.text = {}

\* Lines 353-359.  The remote is not asked.
LoadAtStartup ==
    /\ pc = "start"
    /\ IF StatusPrints(votesFile)
       THEN /\ votes' = load_votes_from_file(votes, votesFile)
            /\ synced' = votes'
            /\ elapsed' = 0
            /\ pc' = "connecting"
            /\ UNCHANGED exitCode
       ELSE /\ pc' = "crashed"
            /\ exitCode' = 1
            /\ UNCHANGED <<votes, synced, elapsed>>
    /\ UNCHANGED <<votes_since_last_upload, votesFile, logFile, remote,
                   serOpen, line, pv, accepted, pushed, posted, faults,
                   lastAttempt, wrote, order,
                   durable, restarts>>

\* serial.Serial(...): opens the port, or the process exits with status 1
Connect ==
    /\ pc = "connecting"
    /\ \/ /\ serOpen' = TRUE
          /\ pc' = "read"
          /\ UNCHANGED exitCode
       \/ /\ pc' = "exited"
          /\ exitCode' = 1
          /\ UNCHANGED serOpen
    /\ UNCHANGED <<votes, votes_since_last_upload, elapsed, votesFile,
                   logFile, remote, line, pv, accepted, synced, pushed,
                   posted, faults, lastAttempt, wrote, order,
                   durable, restarts>>

\* ------------------------------------------------------------------------
\* process_vote and what it calls
\* ------------------------------------------------------------------------
\* faulty variant of ParseVote: tokens after the second are ignored
ParseVoteLoose(text) ==
    LET parts == Split(Strip(text), ",")
    IN  IF Len(parts) >= 2 /\ parts[1] = VOTE
        THEN LET n == PyInt(parts[2])
             IN  [parsed |-> n.ok, candidate_id |-> n.val, returned |-> FALSE]
        ELSE NoResult

\* lines 276-278: the candidate id the line carries, if it is a vote line
ParseVote(text) ==
    LET parts == Split(Strip(text), ",")
    IN  IF Len(parts) = 2 /\ parts[1] = VOTE
        THEN LET n == PyInt(parts[2])
             IN  [parsed |-> n.ok, candidate_id |-> n.val, returned |-> FALSE]
        ELSE NoResult

\* main() lines 386-392: the stripped line reaches process_vote
ReachesProcessVote(raw) ==
    LET l == Strip(raw)
    IN  /\ l # <<>>
        /\ l # READY
        /\ StartsWith(l, VOTE \o <<",">>)

\* what main() gets out of one raw line: the parse of process_vote when the
\* line reaches it, nothing otherwise
Dispatch(raw) == IF ReachesProcessVote(raw) THEN ParseVote(Strip(raw)) ELSE NoResult

\* Dispatch, tabulated over the lines of the model
LineEvent == [raw \in Lines |-> Dispatch(raw)]

\* line 280
InTally(c) == c \in DOMAIN votes

\* process_vote(line) returns True
Accepts(raw) == LineEvent[raw].parsed /\ InTally(LineEvent[raw].candidate_id)

\* CANDIDATES.get(candidate_id, f"Unknown-{candidate_id}")
LogName(c) == IF c \in DOMAIN CANDIDATES THEN CANDIDATES[c] ELSE "Unknown"

FileOutcomes == {"ok", "open_fails", "write_fails"}

Failed(how) == IF how = "ok" THEN 0 ELSE 1

\* line 236: the row of one vote (the timestamp is not told apart)
LogRow(c) == <<"time", KeyText(c), LogName(c)>>

\* log_vote: open(LOG_FILE, 'a') creates the file; the header goes first
\* into a file that did not exist.  Every failure is swallowed.
log_vote(c, how) ==
    logFile' =
        CASE how = "ok" ->
                [exists |-> TRUE,
                 rows |-> (IF logFile.exists THEN logFile.rows ELSE <<HeaderRow>>)
                          \o <<LogRow(c)>>]
          [] how = "open_fails" -> logFile
          [] OTHER -> [logFile EXCEPT !.exists = TRUE]

\* faulty variant of save_votes: the tally as it was before the vote is written
save_votes_before_count(v, how) ==
    votesFile' =
        CASE how = "ok" -> Dump(votes)
          [] how = "open_fails" -> votesFile
          [] OTHER -> CorruptFile

\* save_votes: open(VOTES_FILE, 'w') truncates, json.dump writes the whole
\* dict.  Every failure is swallowed.
save_votes(v, how) ==
    votesFile' =
        CASE how = "ok" -> Dump(v)
          [] how = "open_fails" -> votesFile
          [] OTHER -> CorruptFile

\* faulty variant of CountVote: the count is set to one
CountVoteOverwrites(c) == votes' = [votes EXCEPT ![c] = 1]

\* line 281
CountVote(c) == votes' = [votes EXCEPT ![c] = @ + 1]

\* faulty variant of CountPending: the pending count is a flag
CountPendingAsFlag == votes_since_last_upload' = 1

\* line 282
CountPending == votes_since_last_upload' = votes_since_last_upload + 1

\* lines 280-291, the accepted vote
RecordVote(c, logHow, saveHow) ==
    /\ CountVote(c)
    /\ CountPending
    /\ log_vote(c, logHow)
    /\ save_votes(votes', saveHow)
    /\ accepted' = [accepted EXCEPT ![c] = @ + 1]
    /\ wrote' = [log |-> logHow, save |-> saveHow]
    /\ order' = Append(order, c)
    /\ durable' = IF saveHow = "ok" THEN votes' ELSE durable
    /\ faults' = faults + Failed(logHow) + Failed(saveHow)
    /\ faults' <= MaxFaults

\* a rejected or non-vote line: process_vote returns False, or is not called
IgnoreLine ==
    UNCHANGED <<votes, votes_since_last_upload, logFile, votesFile, accepted,
                faults, wrote, order,
                durable>>

TotalAccepted == accepted[1] + accepted[2] + accepted[3] + accepted[4] + accepted[5]

\* One pass through lines 385-395: nothing waiting, or one line read,
\* stripped and dispatched.  observe: the line read is kept in `line`.
Read(observe) ==
    /\ pc = "read"
    /\ pc' = "check"
    /\ \/ /\ line' = NoLine
          /\ pv' = NoResult
          /\ IgnoreLine
       \/ \E raw \in Lines :
            /\ line' = IF observe THEN raw ELSE NoLine
            /\ IF Accepts(raw)
               THEN /\ TotalAccepted < MaxVotes
                    /\ pv' = [LineEvent[raw] EXCEPT !.returned = TRUE]
                    /\ \E logHow \in FileOutcomes, saveHow \in FileOutcomes :
                         RecordVote(LineEvent[raw].candidate_id, logHow, saveHow)
               ELSE /\ pv' = LineEvent[raw]
                    /\ IgnoreLine
    /\ UNCHANGED <<elapsed, remote, serOpen, exitCode, synced, pushed,
                   posted, lastAttempt, restarts>>

ReadStep == Read(FALSE)

ReadObserved == Read(TRUE)

\* ser.in_waiting or ser.readline() raises (the device went away): only
\* KeyboardInterrupt is caught around the loop, so the process ends with a
\* traceback and the port is never closed
SerialError ==
    /\ pc = "read"
    /\ pc' = "crashed"
    /\ exitCode' = 1
    /\ UNCHANGED <<votes, votes_since_last_upload, elapsed, votesFile,
                   logFile, remote, serOpen, line, pv, accepted, synced,
                   pushed, posted, faults, lastAttempt, wrote, order,
                   durable, restarts>>

\* ------------------------------------------------------------------------
\* Upload scheduling and the push
\* ------------------------------------------------------------------------
\* faulty variant of should_upload: after a failed push the scheduler gives up
should_upload_once ==
    /\ elapsed >= UPLOAD_INTERVAL
    /\ votes_since_last_upload > 0
    /\ lastAttempt = NoAttempt \/ lastAttempt.ok

\* faulty variant of should_upload: the interval is not looked at
should_upload_any_time == votes_since_last_upload > 0

\* should_upload(), lines 298-306
should_upload ==
    /\ elapsed >= UPLOAD_INTERVAL
    /\ votes_since_last_upload > 0

\* What requests.post can come back with: a RequestException, a status
\* other than 200, status 200 with the text "0", status 200 with an entry id
Responses == {"exception", "http_error", "zero", "entry"}

\* line 256
Succeeds(resp) == resp = "entry"

\* the payload of lines 246-252: the four absolute counts
Payload == <<votes[1], votes[2], votes[3], votes[4]>>

\* faulty variants of MarkUploaded: one of the two assignments is missing
MarkUploadedKeepsPending ==
    /\ elapsed' = 0
    /\ UNCHANGED votes_since_last_upload

MarkUploadedNoStamp ==
    /\ votes_since_last_upload' = 0
    /\ UNCHANGED elapsed

\* lines 258-259
MarkUploaded ==
    /\ elapsed' = 0
    /\ votes_since_last_upload' = 0

\* upload_to_thingspeak(), lines 241-267
upload_to_thingspeak(resp) ==
    /\ posted' = IF Succeeds(resp) THEN "ok" ELSE "failed"
    /\ lastAttempt' = [ago |-> 0, ok |-> Succeeds(resp)]
    /\ IF Succeeds(resp)
       THEN /\ remote' = Payload
            /\ MarkUploaded
            /\ synced' = votes
            /\ pushed' = TRUE
       ELSE UNCHANGED <<remote, elapsed, votes_since_last_upload, synced,
                        pushed>>

NoUpload ==
    /\ posted' = "nothing"
    /\ UNCHANGED <<lastAttempt, remote, elapsed, votes_since_last_upload,
                   synced, pushed>>

\* Lines 397-403: the scheduler's check, the push when it is due, the sleep
CheckStep ==
    /\ pc = "check"
    /\ pc' = "read"
    /\ line' = NoLine
    /\ pv' = NoResult
    /\ wrote' = NoWrite
    /\ IF should_upload
       THEN \E resp \in Responses : upload_to_thingspeak(resp)
       ELSE NoUpload
    /\ UNCHANGED <<votes, votesFile, logFile, serOpen, exitCode, accepted,
                   faults, order,
                   durable, restarts>>

\* Time passes: readline's timeout and the sleep of line 403.  The clock is
\* read by should_upload and by line 258 only, so time that passes between
\* the read and the check of one iteration shows as time that passed before
\* the read.
Tick ==
    /\ pc = "read"
    /\ elapsed' = Later(elapsed)
    /\ lastAttempt' =
          IF lastAttempt = NoAttempt THEN lastAttempt
          ELSE [lastAttempt EXCEPT !.ago = Later(@)]
    /\ UNCHANGED <<pc, votes, votes_since_last_upload, votesFile, logFile,
                   remote, serOpen, exitCode, line, pv, accepted, synced,
                   pushed, posted, faults, wrote, order,
                   durable, restarts>>

\* ------------------------------------------------------------------------
\* KeyboardInterrupt and shutdown, lines 405-415
\* ------------------------------------------------------------------------
\* The interrupt is raised between two statements of the loop body: no
\* operation is half done.
Interrupt ==
    /\ pc \in {"read", "check"}
    /\ pc' = "shutting"
    /\ line' = NoLine
    /\ pv' = NoResult
    /\ wrote' = NoWrite
    /\ UNCHANGED <<votes, votes_since_last_upload, elapsed, votesFile,
                   logFile, remote, serOpen, exitCode, accepted, synced,
                   pushed, posted, faults, lastAttempt, order,
                   durable, restarts>>

\* The interrupt is raised inside process_vote, after `reached` of its
\* state-changing statements (lines 281, 282, 288) have run; raised inside
\* save_votes it can leave the file truncated.
InterruptInVote ==
    /\ pc = "read"
    /\ pc' = "shutting"
    /\ line' = NoLine
    /\ pv' = NoResult
    /\ wrote' = NoWrite
    /\ \E raw \in Lines, reached \in 1..3 :
         LET c == LineEvent[raw].candidate_id
         IN  /\ Accepts(raw)
             /\ TotalAccepted < MaxVotes
             /\ CountVote(c)
             /\ IF reached >= 2 THEN CountPending ELSE UNCHANGED votes_since_last_upload
             /\ IF reached >= 3
                THEN /\ \E logHow \in FileOutcomes :
                          /\ log_vote(c, logHow)
                          /\ faults' = faults + Failed(logHow)
                          /\ faults' <= MaxFaults
                     /\ votesFile' \in {votesFile, CorruptFile}
                ELSE UNCHANGED <<logFile, votesFile, faults>>
    /\ UNCHANGED <<elapsed, remote, serOpen, exitCode, accepted, synced,
                   pushed, posted, lastAttempt, order,
                   durable, restarts>>

\* The interrupt is raised inside upload_to_thingspeak after the remote took
\* the update: before line 258 (stamped = FALSE) or between lines 258 and
\* 259 (stamped = TRUE).
InterruptInUpload ==
    /\ pc = "check"
    /\ pc' = "shutting"
    /\ line' = NoLine
    /\ pv' = NoResult
    /\ wrote' = NoWrite
    /\ should_upload
    /\ \E stamped \in BOOLEAN :
         elapsed' = IF stamped THEN 0 ELSE elapsed
    /\ remote' = Payload
    /\ posted' = "ok"
    /\ lastAttempt' = [ago |-> 0, ok |-> TRUE]
    /\ synced' = votes
    /\ pushed' = TRUE
    /\ UNCHANGED <<votes, votes_since_last_upload, votesFile, logFile,
                   serOpen, exitCode, accepted, faults, order,
                   durable, restarts>>

\* faulty variant of ShutDown: the final upload waits for the interval
ShutDownWhenDue ==
    /\ pc = "shutting"
    /\ pc' = "terminated"
    /\ IF should_upload
       THEN \E resp \in Responses : upload_to_thingspeak(resp)
       ELSE NoUpload
    /\ serOpen' = FALSE
    /\ exitCode' = 0
    /\ UNCHANGED <<votes, votesFile, logFile, line, pv, accepted, faults,
                   wrote, order,
                   durable, restarts>>

\* The handler: print_status, the final upload when votes are pending,
\* ser.close(), and the normal end of main()
ShutDown ==
    /\ pc = "shutting"
    /\ pc' = "terminated"
    /\ IF votes_since_last_upload > 0
       THEN \E resp \in Responses : upload_to_thingspeak(resp)
       ELSE NoUpload
    /\ serOpen' = FALSE
    /\ exitCode' = 0
    /\ UNCHANGED <<votes, votesFile, logFile, line, pv, accepted, faults,
                   wrote, order,
                   durable, restarts>>
\* restarts explored
MaxRestarts == 1

\* The process is gone (it ended, crashed, or was killed where it stood) and
\* is started again: the module state is that of lines 68-70 again, the two
\* files and the channel are what the last run left.
Restart ==
    /\ pc # "start"
    /\ restarts < MaxRestarts
    /\ restarts' = restarts + 1
    /\ pc' = "start"
    /\ votes' = ZeroVotes
    /\ votes_since_last_upload' = 0
    /\ elapsed' = Long
    /\ serOpen' = FALSE
    /\ exitCode' = 0 - 1
    /\ line' = NoLine
    /\ pv' = NoResult
    /\ wrote' = NoWrite
    /\ posted' = "nothing"
    /\ lastAttempt' = NoAttempt
    /\ synced' = ZeroVotes
    /\ pushed' = FALSE
    /\ UNCHANGED <<votesFile, logFile, remote, accepted, faults, order, durable>>


Next ==
    \/ LoadAtStartup
    \/ Connect
    \/ ReadStep
    \/ SerialError
    \/ CheckStep
    \/ Tick
    \/ Interrupt
    \/ InterruptInVote
    \/ InterruptInUpload
    \/ ShutDown

Spec == Init /\ [][Next]_vars

\* The program with restarts: what a later run finds of an earlier one.
RestartNext == Next \/ Restart

RestartSpec == Init /\ [][RestartNext]_vars

\* The processing loop left to run: no interrupt, the device stays, the 0.1 s
\* sleep of every iteration lets time pass, and the remote does not refuse
\* for ever.
LiveNext ==
    \/ LoadAtStartup
    \/ Connect
    \/ ReadStep
    \/ CheckStep
    \/ Tick

\* a check of the loop whose push the remote takes
PushSucceeds == CheckStep /\ posted' = "ok"

\* the start state explored for the loop left to run: a first run, with no
\* votes.json, no audit log yet and an empty channel
LiveInit ==
    /\ Init
    /\ votesFile = NoFile
    /\ logFile = NoLog
    /\ remote = EmptyChannel

LiveSpec ==
    /\ LiveInit
    /\ [][LiveNext]_vars
    /\ WF_vars(ReadStep)
    /\ WF_vars(CheckStep)
    /\ SF_vars(Tick)
    /\ SF_vars(PushSucceeds)

\* ------------------------------------------------------------------------
\* fetch_votes_from_thingspeak, lines 175-200 (main() does not call it)
\* ------------------------------------------------------------------------
\* what data.get('fieldN') can be: null (here the empty text) or a text
FieldTexts ==
    { <<>>, <<"7">>, <<"0">>, <<"1", "2">>, <<"a", "b", "c">>, <<"3", ".", "5">> }

\* the body when no field matters: the request failed or the body has no
\* field1
NoFields == [i \in 1..4 |-> <<>>]

\* what requests.get can come back with: a RequestException, a status
\* other than 200, status 200 with a body without field1 (or one that is no
\* JSON object), status 200 with a body that has field1
FetchReplies ==
    {[kind |-> k, body |-> NoFields] : k \in {"exception", "http_error", "no_field1"}}
        \cup {[kind |-> "fields", body |-> b] : b \in [1..4 -> FieldTexts]}

\* lines 182-184
HasFields(reply) == reply.kind = "fields"

\* int(data.get('fieldN') or 0)
FieldValue(t) == IF t = <<>> THEN [ok |-> TRUE, val |-> 0] ELSE PyInt(t)

\* lines 185-188 assign votes[1] .. votes[4] one after the other; the first
\* field that is no integer raises and the assignments before it stand
FirstBadField(body) ==
    IF \E i \in 1..4 : ~FieldValue(body[i]).ok
    THEN CHOOSE i \in 1..4 :
            /\ ~FieldValue(body[i]).ok
            /\ \A j \in 1..(i - 1) : FieldValue(body[j]).ok
    ELSE 5

AssignFields(v, body) ==
    [c \in DOMAIN v \cup (1..(FirstBadField(body) - 1)) |->
        IF c < FirstBadField(body) THEN FieldValue(body[c]).val ELSE v[c]]

\* the tally and the return value of fetch_votes_from_thingspeak
fetch_votes_from_thingspeak(v, reply, file) ==
    IF HasFields(reply) /\ FirstBadField(reply.body) = 5
    THEN [votes |-> AssignFields(v, reply.body), returned |-> TRUE]
    ELSE [votes |-> load_votes_from_file(
                        IF HasFields(reply) THEN AssignFields(v, reply.body) ELSE v,
                        file),
          returned |-> FALSE]

\* a startup that calls fetch_votes_from_thingspeak
FetchAtStartup ==
    /\ pc = "start"
    /\ \E reply \in FetchReplies :
         LET r == fetch_votes_from_thingspeak(votes, reply, votesFile)
         IN  /\ votes' = r.votes
             /\ pc' = IF r.returned THEN "synced" ELSE "fell_back"
    /\ UNCHANGED <<votes_since_last_upload, elapsed, votesFile, logFile,
                   remote, serOpen, exitCode, line, pv, accepted, synced,
                   pushed, posted, faults, lastAttempt, wrote, order,
                   durable, restarts>>

FetchSpec == Init /\ [][FetchAtStartup]_vars

\* The same program with the clock standing still and the line read kept
\* in `line`: the specification for what the parser does with a line.
ParserNext ==
    \/ LoadAtStartup
    \/ Connect
    \/ ReadObserved
    \/ SerialError
    \/ CheckStep
    \/ Interrupt
    \/ ShutDown

ParserSpec == Init /\ [][ParserNext]_vars

\* ------------------------------------------------------------------------
\* Properties
\* ------------------------------------------------------------------------
InLoop == pc \in {"read", "check"}

\* one scheduler check ran to its end
CheckRan == pc = "check" /\ pc' = "read"

\* one line was read, dispatched and, if it was a vote, recorded to the end
ReadRan == pc = "read" /\ pc' = "check"

\* the interrupt handler ran to its end
HandlerRan == pc = "shutting" /\ pc' = "terminated"

\* C1: starting from an all-zero tally, after N accepted votes for a known
\* candidate c and nothing else (no vote for another id, no successful
\* push, no interrupt), votes[c] = N, every other count is 0 and
\* votes_since_last_upload = N.
C1_RepeatedVotesCount ==
    (InLoop /\ ~pushed /\ synced = ZeroVotes) =>
        \A c \in KnownIds :
            (\A o \in DOMAIN accepted \ {c} : accepted[o] = 0) =>
                /\ votes[c] = accepted[c]
                /\ \A o \in KnownIds \ {c} : votes[o] = 0
                /\ votes_since_last_upload = accepted[c]

C1_Witness ==
    /\ pc = "check"
    /\ ~pushed
    /\ synced = ZeroVotes
    /\ accepted[3] = MaxVotes
    /\ votes[3] = MaxVotes
    /\ votes_since_last_upload = MaxVotes

\* C2: a vote line whose candidate id is outside the known candidate set
\* {1,2,3,4} makes process_vote return False and changes neither the tally,
\* nor the pending count, nor the last-upload time, nor votes.json, nor the
\* audit log.
C2_UnknownIdIsNoOp ==
    [][(ReadRan /\ pv'.parsed /\ pv'.candidate_id \notin KnownIds) =>
          /\ ~pv'.returned
          /\ UNCHANGED <<votes, votes_since_last_upload, elapsed, votesFile,
                         logFile>>]_vars

C4_PushExactlyWhenDue ==
    [][/\ CheckRan =>
            (posted' # "nothing" <=>
                (elapsed >= UPLOAD_INTERVAL /\ votes_since_last_upload > 0))
       /\ (pc = "start" /\ pc' = "connecting") => elapsed' = 0
       /\ (pc' \in {"read", "check"} /\ ~pushed' /\ elapsed' < UPLOAD_INTERVAL) =>
            lastAttempt' = NoAttempt]_vars

C4_Witness ==
    /\ pc = "read"
    /\ posted = "failed"
    /\ ~pushed
    /\ lastAttempt = [ago |-> 0, ok |-> FALSE]
    /\ elapsed >= UPLOAD_INTERVAL
    /\ votes_since_last_upload > 0

\* a call of upload_to_thingspeak returned: in the loop or in the handler
UploadReturned == (CheckRan \/ HandlerRan) /\ posted' # "nothing"

\* C5: a push that succeeds sets votes_since_last_upload to 0 and
\* last_upload_time to the current time (no time has passed since it) and
\* leaves the tally alone; a push that fails (exception, status other than
\* 200, the "0" text) leaves all three alone.
C5_PushEffects ==
    [][UploadReturned =>
          /\ posted' = "ok" =>
                /\ votes_since_last_upload' = 0
                /\ elapsed' = 0
                /\ votes' = votes
                /\ remote' = <<votes[1], votes[2], votes[3], votes[4]>>
          /\ posted' = "failed" =>
                UNCHANGED <<votes_since_last_upload, elapsed, votes, remote>>]_vars

C5_Witness ==
    /\ pc = "read"
    /\ posted = "ok"
    /\ votes_since_last_upload = 0
    /\ elapsed = 0
    /\ accepted[1] = 1
    /\ remote = <<votes[1], votes[2], votes[3], votes[4]>>

\* The claim's own reading of a line: trimmed, exactly one comma, VOTE before
\* it, an integer after it.
Commas(t) == {i \in 1..Len(t) : t[i] = ","}
IsVoteLine(raw) ==
    LET t == Strip(raw)
    IN  /\ Cardinality(Commas(t)) = 1
        /\ LET i == CHOOSE j \in Commas(t) : TRUE
           IN  /\ SubSeq(t, 1, i - 1) = VOTE
               /\ PyInt(SubSeq(t, i + 1, Len(t))).ok
VotedFor(raw) ==
    LET t == Strip(raw)
        i == CHOOSE j \in Commas(t) : TRUE
    IN  PyInt(SubSeq(t, i + 1, Len(t))).val

\* C6: a line is taken as a vote for X exactly when, trimmed, it splits at
\* commas into two tokens, the first VOTE and the second an integer X; any
\* other line is no vote and changes nothing.
C6_VoteLinesOnly ==
    [][(ReadRan /\ line' # NoLine) =>
          /\ pv'.parsed <=> IsVoteLine(line')
          /\ pv'.parsed => pv'.candidate_id = VotedFor(line')
          /\ ~pv'.parsed =>
                /\ ~pv'.returned
                /\ UNCHANGED <<votes, votes_since_last_upload, elapsed,
                               votesFile, logFile, remote>>]_vars

C6_Witness ==
    /\ pc = "check"
    /\ line = <<" ">> \o VOTE \o <<",", "3", " ">>
    /\ pv = [parsed |-> TRUE, candidate_id |-> 3, returned |-> TRUE]
    /\ accepted[3] = 1

\* C7: once startup has loaded the tally, no step lowers a count or changes
\* the tally's keys: a step leaves the tally alone or raises one count by
\* one, and a step that accepts a vote raises exactly that candidate's
\* count by one.
C7_CountsOnlyGrow ==
    [][pc # "start" =>
          /\ \/ votes' = votes
             \/ \E c \in DOMAIN votes : votes' = [votes EXCEPT ![c] = @ + 1]
          /\ \A c \in DOMAIN accepted :
                accepted'[c] # accepted[c] =>
                    votes' = [votes EXCEPT ![c] = @ + 1]]_vars

C7_Witness ==
    /\ pc = "terminated"
    /\ pushed
    /\ accepted[2] = 1
    /\ accepted[4] = 1
    /\ votes[2] = synced[2] + 1

RECURSIVE SumOver(_, _)
SumOver(f, S) ==
    IF S = {} THEN 0
    ELSE LET x == CHOOSE y \in S : TRUE
         IN  f[x] + SumOver(f, S \ {x})

\* votes counted in the tally since the last successful push, or since
\* startup if none
CountedSinceSync == SumOver(votes, DOMAIN votes) - SumOver(synced, DOMAIN synced)

\* C8: in every reachable state votes_since_last_upload is not negative and
\* equals the number of votes counted since the last successful push (since
\* startup if none).
C8_PendingIsUnsynced ==
    pc # "start" =>
        /\ votes_since_last_upload >= 0
        /\ votes_since_last_upload = CountedSinceSync

\* C9 (as claimed): two consecutive pushes sent by the processing loop are
\* at least UPLOAD_INTERVAL apart, also when the earlier one failed.
C9_AttemptsSpaced ==
    [][(CheckRan /\ posted' # "nothing" /\ lastAttempt # NoAttempt) =>
          lastAttempt.ago >= UPLOAD_INTERVAL]_vars

\* C9 (amended): the interval check counts from the last successful push.
\* A push sent by the loop comes at least UPLOAD_INTERVAL after the previous
\* push if that one succeeded; after a push that failed, the very next check
\* of the loop sends the push again.
C9_RetryAtNextCheck ==
    [][CheckRan =>
          /\ (posted' # "nothing" /\ lastAttempt.ok) =>
                lastAttempt.ago >= UPLOAD_INTERVAL
          /\ posted = "failed" => posted' # "nothing"]_vars

C9_Witness ==
    /\ pc = "read"
    /\ posted = "failed"
    /\ pushed
    /\ lastAttempt = [ago |-> 0, ok |-> FALSE]
    /\ elapsed >= UPLOAD_INTERVAL

\* C10: the interrupt handler sends exactly one final push when
\* votes_since_last_upload > 0, however little time has passed since
\* last_upload_time, and none when it is 0; whatever the push comes back
\* with, the handler closes the serial port and the process ends normally.
\* A handler that has started can always finish.
C10_FinalFlush ==
    /\ [](pc = "shutting" => ENABLED ShutDown)
    /\ [][pc = "shutting" =>
            /\ pc' = "terminated"
            /\ posted' # "nothing" <=> votes_since_last_upload > 0
            /\ posted' # "nothing" => lastAttempt' = [ago |-> 0, ok |-> posted' = "ok"]
            /\ ~serOpen'
            /\ exitCode' = 0]_vars

C10_Witness ==
    /\ pc = "terminated"
    /\ posted = "failed"
    /\ elapsed < UPLOAD_INTERVAL
    /\ votes_since_last_upload > 0
    /\ ~serOpen
    /\ exitCode = 0

\* process_vote returned True in this step
VoteAccepted == ReadRan /\ pv'.returned

\* C11: every accepted vote calls save_votes with the whole current tally:
\* when the write goes through, votes.json holds exactly the tally as it is
\* after the vote; when the write fails, the vote is counted all the same
\* (the count and votes_since_last_upload are one higher, process_vote
\* returns True) and the loop goes on, so that the next accepted vote writes
\* again.  No other step of the loop calls save_votes.
C11_SaveOnEveryVote ==
    [][/\ VoteAccepted =>
            /\ wrote'.save \in FileOutcomes
            /\ wrote'.save = "ok" => votesFile' = Dump(votes')
            /\ votes' = [votes EXCEPT ![pv'.candidate_id] = @ + 1]
            /\ votes_since_last_upload' = votes_since_last_upload + 1
            /\ pc' = "check"
            /\ exitCode' = exitCode
       /\ (ReadRan /\ ~pv'.returned) => (wrote' = NoWrite /\ votesFile' = votesFile)
       /\ CheckRan => votesFile' = votesFile]_vars

\* a write that went through after an earlier one that failed
C11_Witness ==
    /\ pc = "check"
    /\ wrote = [log |-> "ok", save |-> "ok"]
    /\ faults = 1
    /\ TotalAccepted = 2
    /\ Len(logFile.rows) = 3
    /\ votesFile = Dump(votes)
    /\ votes[2] = 2

\* the rows log_vote writes for the accepted votes, in the order accepted
RowsOf(ids) == [i \in 1..Len(ids) |-> LogRow(ids[i])]

\* C12: votes.csv is one header row, written first when the file is newly
\* created, followed by the rows of the accepted votes in the order they
\* were accepted: a log that has rows starts with the header, the header
\* occurs once, and while no file operation has failed the rows after it are
\* exactly one per accepted vote.
C12_HeaderThenVoteRows ==
    logFile.rows # <<>> =>
        /\ Head(logFile.rows) = HeaderRow
        /\ \A i \in 2..Len(logFile.rows) : logFile.rows[i] # HeaderRow
        /\ (InLoop /\ faults = 0) => Tail(logFile.rows) = RowsOf(order)

\* C13: nothing that happens inside an iteration of the processing loop
\* ends the process: from the loop the program goes on with the loop, or,
\* on the interrupt, to the handler; it never ends otherwise and its exit
\* status stays unset.
C13_OnlyInterruptLeavesLoop ==
    [][InLoop => (pc' \in {"read", "check", "shutting"} /\ exitCode' = exitCode)]_vars

\* C14: after a restart, when startup has loaded the tally, every count is
\* at least the count save_votes last wrote to votes.json before the
\* restart: no vote that was accepted and persisted is lost, however the
\* earlier run ended.
C14_PersistedVotesSurvive ==
    (restarts > 0 /\ pc = "connecting") =>
        \A c \in DOMAIN durable : c \in DOMAIN votes /\ votes[c] >= durable[c]

\* C15: a push sends the four absolute counts, so once a push has succeeded
\* in this run, votes_since_last_upload = 0 means that the channel's last
\* entry is the tally as it is now.
C15_RemoteHasTallyWhenNothingPending ==
    (pushed /\ votes_since_last_upload = 0) => remote = Payload

\* C16: while the loop runs, time passes and the remote does not refuse for
\* ever, pending votes are pushed in the end: from every state of the loop
\* with votes_since_last_upload > 0 a state is reached where a push has just
\* succeeded and votes_since_last_upload is 0; and a push that failed leaves
\* the push due, so the scheduler tries again.
C16_PendingVotesGetPushed ==
    /\ (InLoop /\ votes_since_last_upload > 0)
            ~> (posted = "ok" /\ votes_since_last_upload = 0)
    /\ [][(CheckRan /\ posted' = "failed") =>
             (elapsed' >= UPLOAD_INTERVAL /\ votes_since_last_upload' > 0)]_vars

C16_Witness ==
    /\ pc = "read"
    /\ posted = "ok"
    /\ votes_since_last_upload = 0
    /\ order = <<2, 3>>
    /\ remote = <<votes[1], votes[2], votes[3], votes[4]>>
    /\ synced = votes

\* C17: the interrupt is taken between two iterations of the loop only: the
\* step that enters the handler changes neither the tally, nor the pending
\* count, nor the time of the last upload, nor the two files, nor the
\* channel, so no vote and no push is half done when shutdown begins.
C17_ShutdownBetweenIterations ==
    [][(pc # "shutting" /\ pc' = "shutting") =>
          UNCHANGED <<votes, votes_since_last_upload, elapsed, votesFile,
                      logFile, remote>>]_vars

\* C18: when fetch_votes_from_thingspeak fails (it returns False), the tally
\* holds nothing of the remote's reply: it is the contents of votes.json if
\* that file can be loaded, and all zeros if not.
C18_FailedFetchTakesNothing ==
    pc = "fell_back" =>
        votes = IF FileLoads(votesFile) THEN LoadedDict(votesFile) ELSE ZeroVotes

\* C19: in every state after startup the tally's keys are exactly the
\* candidate ids 1..4 and every count is a natural number, whatever
\* votes.json held when the process started.
C19_TallyKeysFixed ==
    pc # "start" =>
        /\ DOMAIN votes = KnownIds
        /\ \A c \in DOMAIN votes : votes[c] \in Nat

====
